---- MODULE Spec2Model ----
(***************************************************************************)
(* LootState (src/gui/state/loot_state.cpp): the list of installed games,  *)
(* the iterator to the current game, the unapplied-change counter and the  *)
(* mutex, driven by the start-up call init() and by threads that call      *)
(* load, changeGame, getCurrentGame, getInstalledGames and the counter     *)
(* operations.                                                             *)
(*                                                                         *)
(* A game in installedGames_ is a record [id, folder, path]: id is the     *)
(* identity of the list node (what an iterator or a reference denotes),    *)
(* folder is FolderName(), path stands for the fields load() overwrites    *)
(* with the Set...() chain.  An iterator is a node id, or END for          *)
(* installedGames_.end().  An iterator or reference whose node has been    *)
(* erased is dangling: its id is the id of no game of the list.            *)
(***************************************************************************)
EXTENDS Integers, Sequences, FiniteSets

VARIABLES
  installedGames_,          \* the list of gui::Game
  currentGame_,             \* iterator into installedGames_
  unappliedChangeCounter_,  \* the counter
  initErrors_,              \* the messages init() collected
  mutex_,                   \* the thread that holds mutex_, or NoThread
  settings,                 \* LootSettings: [games, game, lastGame]
  initCall,                 \* NoCall, or the argument init() was called with
  pc,                       \* per thread: where it is in the operation it runs
  tmp,                      \* per thread: the locals of that operation
  result,                   \* what the call that returned last returned
  crashed,                  \* the process has been ended by undefined behaviour
  calls                     \* counter calls so far: [n |-> started,
                            \*   inc |-> increments returned, dec |-> decrements started]

vars == <<installedGames_, currentGame_, unappliedChangeCounter_, initErrors_,
          mutex_, settings, initCall, pc, tmp, result, crashed, calls>>

-----------------------------------------------------------------------------
(* Bounds of the model.                                                    *)

\* longest configured game list a settings file holds: with one thread
\* calling in, with threads calling in concurrently, at start-up alone
MaxCfgLen == 2
MaxConcLen == 1
MaxStartLen == 3
\* most calls of incrementUnappliedChangeCounter and
\* decrementUnappliedChangeCounter in a run
MaxCounterCalls == 5

Threads == {"t1", "t2"}
SeqThreads == {"t1"}
NoThread == "none"
END == 0
NoCall == [called |-> FALSE, cmdLineGame |-> ""]

-----------------------------------------------------------------------------
(* Strings.                                                                *)

\* std::tolower over the letters the model uses
ToLower(s) ==
  CASE s = "A" -> "a"
    [] s = "B" -> "b"
    [] s = "C" -> "c"
    [] s = "X" -> "x"
    [] OTHER -> s

\* boost::iequals
IEquals(s1, s2) == ToLower(s1) = ToLower(s2)

-----------------------------------------------------------------------------
(* Sequences.                                                              *)

SeqsUpTo(S, n) == UNION {[1..k -> S] : k \in 0..n}

\* std::find_if: the first index whose element satisfies P, 0 for end()
FirstIndex(s, P(_)) ==
  IF \E i \in 1..Len(s) : P(s[i])
  THEN CHOOSE i \in 1..Len(s) : P(s[i]) /\ \A j \in 1..(i - 1) : ~P(s[j])
  ELSE 0

Ids(games) == {games[i].id : i \in 1..Len(games)}
Folders(games) == [i \in 1..Len(games) |-> games[i].folder]

\* the iterator find_if returns: the node at the index, or end()
IterAt(games, i) == IF i = 0 THEN END ELSE games[i].id

Dangling(games, it) == it /= END /\ it \notin Ids(games)

-----------------------------------------------------------------------------
(* The settings (LootSettings) and the game detection probe.               *)

\* a configured game: GameSettings, its folder name and its other fields
Descriptors(names, paths) == [folder : names, path : paths]

SettingsOver(names, paths, games, lastGames, n) ==
  [games : SeqsUpTo(Descriptors(names, paths), n),
   game : games, lastGame : lastGames]

\* the folder names of a configured list
ConfiguredFolders(cfg) == [i \in 1..Len(cfg) |-> cfg[i].folder]

\* s is t with some elements left out
RECURSIVE IsSubSeq(_, _)
IsSubSeq(s, t) ==
  IF s = <<>> THEN TRUE
  ELSE IF t = <<>> THEN FALSE
  ELSE IF Head(s) = Head(t) THEN IsSubSeq(Tail(s), Tail(t))
  ELSE IsSubSeq(s, Tail(t))

\* the settings whose configured games are some of the games of master, in
\* master's order
SettingsWithin(master, paths, games, lastGames, n) ==
  {st \in SettingsOver({master[i] : i \in 1..Len(master)}, paths, games,
                       lastGames, n) :
     IsSubSeq(ConfiguredFolders(st.games), master)}

DefaultSettings == [games |-> <<>>, game |-> "auto", lastGame |-> "auto"]

\* GameSettings::operator==, as find() in load() applies it to a game of the
\* list and a configured game
GameSettingsEq(game, gs) == IEquals(game.folder, gs.folder)

\* gui::Game::IsInstalled: probe is the set of folder names found installed
IsInstalled(gs, probe) == gs.folder \in probe

\* the id of a new list node: that of no game of the list and of no erased
\* node an iterator or reference still denotes
FreshId(games, held) ==
  LET used == Ids(games) \cup held
  IN CHOOSE i \in 1..(Cardinality(used) + 1) :
       i \notin used /\ \A j \in 1..(i - 1) : j \in used

\* gui::Game(gameSettings, ...)
NewGame(gs, id) == [id |-> id, folder |-> gs.folder, path |-> gs.path]

\* updateStoredGamePathSetting: the first configured game whose folder
\* name equals the game's, ignoring case, takes the game's path
UpdateStoredGamePathSetting(stored, game) ==
  LET pos == FirstIndex(stored, LAMBDA gs : IEquals(game.folder, gs.folder))
  IN IF pos = 0 THEN stored
     ELSE [stored EXCEPT ![pos].path = game.path]

-----------------------------------------------------------------------------
(* selectGame.                                                             *)

\* lines 263-269: the name looked for
PreferredGame(preferredGame, st) ==
  IF preferredGame = ""
  THEN IF st.game /= "auto" THEN st.game
       ELSE IF st.lastGame /= "auto" THEN st.lastGame
       ELSE ""
  ELSE preferredGame

\* the first game with exactly this folder name, END if there is none
ExactMatch(games, name) ==
  IterAt(games, FirstIndex(games, LAMBDA g : g.folder = name))

\* A selection that walks the preferences level by level: the first of
\* preferredGame, game, lastGame that names a game of the list wins.
LevelByLevel(games, preferredGame, st) ==
  IF games = <<>> THEN END
  ELSE IF preferredGame /= "" /\ ExactMatch(games, preferredGame) /= END
  THEN ExactMatch(games, preferredGame)
  ELSE IF st.game /= "auto" /\ ExactMatch(games, st.game) /= END
  THEN ExactMatch(games, st.game)
  ELSE IF st.lastGame /= "auto" /\ ExactMatch(games, st.lastGame) /= END
  THEN ExactMatch(games, st.lastGame)
  ELSE games[1].id

\* selectGame with the level-by-level walk in place of lines 263-278
SelectGameLevelByLevel(games, preferredGame, st) ==
  [cur |-> LevelByLevel(games, preferredGame, st), thrown |-> games = <<>>]

\* lines 262-284: the iterator selected, and whether GameDetectionError is
\* thrown (begin() of an empty list is end())
SelectGame(games, preferredGame, st) ==
  LET p == PreferredGame(preferredGame, st)
      found == IterAt(games, FirstIndex(games, LAMBDA g : p = "" \/ p = g.folder))
      cur == IF found /= END THEN found
             ELSE IF games = <<>> THEN END ELSE games[1].id
  IN [cur |-> cur, thrown |-> cur = END]

-----------------------------------------------------------------------------
(* load: the two passes over the list.                                     *)

\* lines 75-94, one configured game: acc is [games, stored, folders]
UpdateOne(acc, gs, probe, held) ==
  LET pos == FirstIndex(acc.games, LAMBDA g : GameSettingsEq(g, gs))
      seen == acc.folders \cup {gs.folder}
  IN IF pos /= 0
     THEN [games |-> [acc.games EXCEPT ![pos].path = gs.path],
           stored |-> acc.stored, folders |-> seen]
     ELSE IF IsInstalled(gs, probe)
     THEN LET game == NewGame(gs, FreshId(acc.games, held))
          IN [games |-> Append(acc.games, game),
              stored |-> UpdateStoredGamePathSetting(acc.stored, game),
              folders |-> seen]
     ELSE [games |-> acc.games, stored |-> acc.stored, folders |-> seen]

\* lines 73-94: the loop over getGameSettings()
RECURSIVE UpdateGames(_, _, _, _, _)
UpdateGames(acc, cfg, i, probe, held) ==
  IF i > Len(cfg) THEN acc
  ELSE UpdateGames(UpdateOne(acc, cfg[i], probe, held), cfg, i + 1, probe, held)

\* a removal pass that erases nothing
RemoveNothing(games, newGameFolders) == games

\* lines 99-105: erase the games whose folder name was not configured
RemoveDeleted(games, newGameFolders) ==
  SelectSeq(games, LAMBDA g : g.folder \in newGameFolders)

\* lines 193-200 of init: one configured game
DetectOne(acc, gs, probe) ==
  IF IsInstalled(gs, probe)
  THEN LET game == NewGame(gs, FreshId(acc.games, {}))
       IN [games |-> Append(acc.games, game),
           stored |-> UpdateStoredGamePathSetting(acc.stored, game)]
  ELSE acc

RECURSIVE DetectGames(_, _, _, _)
DetectGames(acc, cfg, i, probe) ==
  IF i > Len(cfg) THEN acc
  ELSE DetectGames(DetectOne(acc, cfg[i], probe), cfg, i + 1, probe)

-----------------------------------------------------------------------------
(* The state after construction (line 62).                                 *)

NoTmp == [folders |-> {}, probe |-> {}, val |-> END, live |-> FALSE, pre |-> <<>>]
NoResult == [op |-> "none", out |-> "none", val |-> END, aux |-> <<>>]

Init ==
  /\ installedGames_ = <<>>
  /\ currentGame_ = END
  /\ unappliedChangeCounter_ = 0
  /\ initErrors_ = <<>>
  /\ mutex_ = NoThread
  /\ settings = DefaultSettings
  /\ initCall = NoCall
  /\ pc = [t \in Threads |-> "idle"]
  /\ tmp = [t \in Threads |-> NoTmp]
  /\ result = NoResult
  /\ crashed = FALSE
  /\ calls = [n |-> 0, inc |-> 0, dec |-> 0]

\* the ids that iterators and references outside the list still denote
Held == {currentGame_} \cup {tmp[t].val : t \in {u \in Threads : pc[u] = "use"}}

-----------------------------------------------------------------------------
(* init (lines 117-212), run once by the start-up thread before any other  *)
(* thread calls in.  file is what LootSettings::load reads from the        *)
(* settings file.                                                          *)

init(cmdLineGame, file, probe) ==
  /\ ~initCall.called
  /\ \E det \in {DetectGames([games |-> <<>>, stored |-> file.games],
                              file.games, 1, probe)} :
     \E sel \in {SelectGame(det.games, cmdLineGame,
                             [file EXCEPT !.games = det.stored])} :
        /\ installedGames_' = det.games
        /\ settings' = [file EXCEPT !.games = det.stored]
        /\ currentGame_' = sel.cur
        /\ initErrors_' = IF sel.thrown
                          THEN Append(initErrors_, "GameDetectionError")
                          ELSE initErrors_
  /\ initCall' = [called |-> TRUE, cmdLineGame |-> cmdLineGame]
  /\ UNCHANGED <<unappliedChangeCounter_, mutex_, pc, tmp, result, crashed>>
  /\ UNCHANGED calls

Running == initCall.called /\ ~crashed

\* a guard that does not wait for the mutex
LockWithoutWaiting(t) == mutex_' = t

\* lock_guard<mutex> guard(mutex_)
Lock(t) == mutex_ = NoThread /\ mutex_' = t

\* the guard's destructor
Unlock(t) == mutex_' = NoThread

\* a thread calls load, changeGame or getCurrentGame and reaches the lock
Call(t) ==
  /\ Running
  /\ pc[t] = "idle"
  /\ \E op \in {"load_wait", "change_wait", "get_wait"} :
       pc' = [pc EXCEPT ![t] = op]
  /\ UNCHANGED <<installedGames_, currentGame_, unappliedChangeCounter_,
                 initErrors_, mutex_, settings, initCall, tmp, result, crashed>>
  /\ UNCHANGED calls

-----------------------------------------------------------------------------
(* load (lines 64-115).  The lock is held from the first step to the last; *)
(* the steps are the points where a thread that takes no lock can run in   *)
(* between.                                                                *)

\* lines 65-67: take the lock, LootSettings::load(settings)
LoadAcquire(t, nodes, probes) ==
  /\ Running
  /\ pc[t] = "load_wait"
  /\ Lock(t)
  /\ \E node \in nodes, probe \in probes :
       /\ settings' = node
       /\ tmp' = [tmp EXCEPT ![t] = [NoTmp EXCEPT
                     !.probe = probe, !.pre = Folders(installedGames_)]]
  /\ pc' = [pc EXCEPT ![t] = "load_update"]
  /\ UNCHANGED <<installedGames_, currentGame_, unappliedChangeCounter_,
                 initErrors_, initCall, result, crashed>>
  /\ UNCHANGED calls

\* lines 73-94
LoadUpdate(t) ==
  /\ Running
  /\ pc[t] = "load_update"
  /\ \E upd \in {UpdateGames([games |-> installedGames_,
                               stored |-> settings.games, folders |-> {}],
                              settings.games, 1, tmp[t].probe, Held)} :
        /\ installedGames_' = upd.games
        /\ settings' = [settings EXCEPT !.games = upd.stored]
        /\ tmp' = [tmp EXCEPT ![t].folders = upd.folders]
  /\ pc' = [pc EXCEPT ![t] = "load_remove"]
  /\ UNCHANGED <<currentGame_, unappliedChangeCounter_, initErrors_, mutex_,
                 initCall, result, crashed>>
  /\ UNCHANGED calls

\* lines 99-105
LoadRemove(t) ==
  /\ Running
  /\ pc[t] = "load_remove"
  /\ installedGames_' = RemoveDeleted(installedGames_, tmp[t].folders)
  /\ pc' = [pc EXCEPT ![t] = "load_select"]
  /\ UNCHANGED <<currentGame_, unappliedChangeCounter_, initErrors_, mutex_,
                 settings, initCall, tmp, result, crashed>>
  /\ UNCHANGED calls

\* a tail that calls selectGame("") whatever the current game is
LoadTailReselecting(games, cur, st) ==
  LET sel == SelectGame(games, "", st)
  IN {[cur |-> sel.cur,
       out |-> IF sel.thrown THEN "GameDetectionError" ELSE "ok"]}

\* lines 107-115, as the outcomes [cur, out] the call can end with.
\* Comparing an iterator whose game was erased with end() is undefined:
\* either answer.  Init() through such an iterator is undefined: the call
\* goes on and returns, or the process dies.
LoadTail(games, cur, st) ==
  LET answers == IF Dangling(games, cur) THEN BOOLEAN ELSE {cur = END}
      sel == SelectGame(games, "", st)
      After(atEnd) ==
        IF atEnd
        THEN {[cur |-> sel.cur,
               out |-> IF sel.thrown THEN "GameDetectionError" ELSE "ok"]}
        ELSE IF Dangling(games, cur)
        THEN {[cur |-> cur, out |-> "ok"], [cur |-> cur, out |-> "crash"]}
        ELSE {[cur |-> cur, out |-> "ok"]}
  IN UNION {After(atEnd) : atEnd \in answers}

\* lines 107-115: load returns or throws and the guard releases the lock,
\* or the process dies inside the call
LoadSelect(t) ==
  /\ Running
  /\ pc[t] = "load_select"
  /\ \E o \in LoadTail(installedGames_, currentGame_, settings) :
       /\ currentGame_' = o.cur
       /\ IF o.out = "crash"
          THEN /\ crashed' = TRUE
               /\ UNCHANGED <<mutex_, pc, tmp, result>>
          ELSE /\ Unlock(t)
               /\ pc' = [pc EXCEPT ![t] = "idle"]
               /\ tmp' = [tmp EXCEPT ![t] = NoTmp]
               /\ result' = [op |-> "load", out |-> o.out, val |-> o.cur,
                             aux |-> <<>>]
               /\ UNCHANGED crashed
  /\ UNCHANGED <<installedGames_, unappliedChangeCounter_, initErrors_,
                 settings, initCall>>
  /\ UNCHANGED calls

-----------------------------------------------------------------------------
(* changeGame (lines 224-233).                                             *)

ChangeAcquire(t) ==
  /\ Running
  /\ pc[t] = "change_wait"
  /\ Lock(t)
  /\ pc' = [pc EXCEPT ![t] = "change_body"]
  /\ UNCHANGED <<installedGames_, currentGame_, unappliedChangeCounter_,
                 initErrors_, settings, initCall, tmp, result, crashed>>
  /\ UNCHANGED calls

\* a search that tells upper case from lower case
FindGameExactCase(games, newGameFolder) ==
  IterAt(games, FirstIndex(games, LAMBDA g : newGameFolder = g.folder))

\* lines 228-230
FindGame(games, newGameFolder) ==
  IterAt(games, FirstIndex(games, LAMBDA g : IEquals(newGameFolder, g.folder)))

\* lines 228-233, as the outcomes [cur, out] the call can end with.
\* Init() through end() is undefined: the call goes on and returns, or the
\* process dies.
ChangeTail(games, newGameFolder) ==
  LET it == FindGame(games, newGameFolder)
  IN IF it = END
     THEN {[cur |-> it, out |-> "ok"], [cur |-> it, out |-> "crash"]}
     ELSE {[cur |-> it, out |-> "ok"]}

ChangeGame(t, names) ==
  /\ Running
  /\ pc[t] = "change_body"
  /\ \E newGameFolder \in names :
       \E o \in ChangeTail(installedGames_, newGameFolder) :
         /\ currentGame_' = o.cur
         /\ IF o.out = "crash"
            THEN /\ crashed' = TRUE
                 /\ UNCHANGED <<mutex_, pc, result>>
            ELSE /\ Unlock(t)
                 /\ pc' = [pc EXCEPT ![t] = "idle"]
                 /\ result' = [op |-> "changeGame", out |-> o.out,
                               val |-> o.cur, aux |-> newGameFolder]
                 /\ UNCHANGED crashed
  /\ UNCHANGED <<installedGames_, unappliedChangeCounter_, initErrors_,
                 settings, initCall, tmp>>
  /\ UNCHANGED calls

-----------------------------------------------------------------------------
(* getCurrentGame (lines 235-239) and its caller.                          *)

GetAcquire(t) ==
  /\ Running
  /\ pc[t] = "get_wait"
  /\ Lock(t)
  /\ pc' = [pc EXCEPT ![t] = "get_body"]
  /\ UNCHANGED <<installedGames_, currentGame_, unappliedChangeCounter_,
                 initErrors_, settings, initCall, tmp, result, crashed>>
  /\ UNCHANGED calls

\* line 238 and the end of the guard's scope: the reference is returned
\* and the lock released; the caller then holds the reference
GetCurrentGame(t) ==
  /\ Running
  /\ pc[t] = "get_body"
  /\ Unlock(t)
  /\ pc' = [pc EXCEPT ![t] = "use"]
  /\ tmp' = [tmp EXCEPT ![t] = [NoTmp EXCEPT
                !.val = currentGame_,
                !.live = currentGame_ \in Ids(installedGames_)]]
  /\ result' = [op |-> "getCurrentGame", out |-> "handle", val |-> currentGame_,
        aux |-> <<>>]
  /\ UNCHANGED <<installedGames_, currentGame_, unappliedChangeCounter_,
                 initErrors_, settings, initCall, crashed>>
  /\ UNCHANGED calls

\* the caller reads the game through the reference and drops it.  Through
\* a reference to an erased game, or to end(), the read is undefined: it
\* yields something, or the process dies.
UseHandle(t) ==
  /\ Running
  /\ pc[t] = "use"
  /\ IF tmp[t].val \in Ids(installedGames_)
     THEN /\ result' = [op |-> "use", out |-> "ok", val |-> tmp[t].val, aux |-> <<>>]
          /\ pc' = [pc EXCEPT ![t] = "idle"]
          /\ tmp' = [tmp EXCEPT ![t] = NoTmp]
          /\ UNCHANGED crashed
     ELSE \/ /\ result' = [op |-> "use", out |-> "undefined", val |-> tmp[t].val,
                    aux |-> <<>>]
             /\ pc' = [pc EXCEPT ![t] = "idle"]
             /\ tmp' = [tmp EXCEPT ![t] = NoTmp]
             /\ UNCHANGED crashed
          \/ /\ crashed' = TRUE
             /\ UNCHANGED <<pc, tmp, result>>
  /\ UNCHANGED <<installedGames_, currentGame_, unappliedChangeCounter_,
                 initErrors_, mutex_, settings, initCall>>
  /\ UNCHANGED calls

-----------------------------------------------------------------------------
(* The operations that take no lock.                                       *)

\* the load in progress, if any: the thread between LoadAcquire and return
Loaders == {u \in Threads : pc[u] \in {"load_update", "load_remove", "load_select"}}

\* the folder names the list will hold when the load of thread u returns
PostLoad(u) ==
  IF pc[u] = "load_update"
  THEN LET upd == UpdateGames([games |-> installedGames_,
                               stored |-> settings.games, folders |-> {}],
                              settings.games, 1, tmp[u].probe, Held)
       IN Folders(RemoveDeleted(upd.games, upd.folders))
  ELSE IF pc[u] = "load_remove"
  THEN Folders(RemoveDeleted(installedGames_, tmp[u].folders))
  ELSE Folders(installedGames_)

\* getInstalledGames (lines 241-247); aux records the load it ran during:
\* the list's folder names before that load and after it
GetInstalledGames(t) ==
  /\ Running
  /\ pc[t] = "idle"
  /\ result' = [op |-> "getInstalledGames", out |-> "ok",
        val |-> Folders(installedGames_),
        aux |-> IF Loaders = {} THEN <<>>
                ELSE LET u == CHOOSE u \in Loaders : TRUE
                     IN <<tmp[u].pre, PostLoad(u)>>]
  /\ UNCHANGED <<installedGames_, currentGame_, unappliedChangeCounter_,
                 initErrors_, mutex_, settings, initCall, pc, tmp, crashed>>
  /\ UNCHANGED calls

\* hasUnappliedChanges (lines 249-251)
HasUnappliedChanges(t) ==
  /\ Running
  /\ pc[t] = "idle"
  /\ result' = [op |-> "hasUnappliedChanges", out |-> "ok",
        val |-> unappliedChangeCounter_ > 0, aux |-> unappliedChangeCounter_]
  /\ UNCHANGED <<installedGames_, currentGame_, unappliedChangeCounter_,
                 initErrors_, mutex_, settings, initCall, pc, tmp, crashed>>
  /\ UNCHANGED calls

\* ++unappliedChangeCounter_ (line 254): the read
IncRead(t) ==
  /\ Running
  /\ pc[t] = "idle"
  /\ calls.n < MaxCounterCalls
  /\ calls' = [calls EXCEPT !.n = @ + 1]
  /\ pc' = [pc EXCEPT ![t] = "inc_write"]
  /\ tmp' = [tmp EXCEPT ![t] = [NoTmp EXCEPT !.val = unappliedChangeCounter_]]
  /\ UNCHANGED <<installedGames_, currentGame_, unappliedChangeCounter_,
                 initErrors_, mutex_, settings, initCall, result, crashed>>

\* ++unappliedChangeCounter_ (line 254): the write
IncWrite(t) ==
  /\ Running
  /\ pc[t] = "inc_write"
  /\ unappliedChangeCounter_' = tmp[t].val + 1
  /\ calls' = [calls EXCEPT !.inc = @ + 1]
  /\ pc' = [pc EXCEPT ![t] = "idle"]
  /\ tmp' = [tmp EXCEPT ![t] = NoTmp]
  /\ result' = [op |-> "increment", out |-> "ok", val |-> tmp[t].val + 1,
        aux |-> unappliedChangeCounter_]
  /\ UNCHANGED <<installedGames_, currentGame_, initErrors_, mutex_,
                 settings, initCall, crashed>>

\* a decrement that does not test the counter
DecReadUntested(t) ==
  /\ Running
  /\ pc[t] = "idle"
  /\ calls.n < MaxCounterCalls
  /\ calls' = [calls EXCEPT !.n = @ + 1, !.dec = @ + 1]
  /\ pc' = [pc EXCEPT ![t] = "dec_write"]
  /\ tmp' = [tmp EXCEPT ![t] = [NoTmp EXCEPT !.val = unappliedChangeCounter_]]
  /\ UNCHANGED <<installedGames_, currentGame_, unappliedChangeCounter_,
                 initErrors_, mutex_, settings, initCall, result, crashed>>

\* lines 258-259: the test and the read of the decrement
DecRead(t) ==
  /\ Running
  /\ pc[t] = "idle"
  /\ calls.n < MaxCounterCalls
  /\ calls' = [calls EXCEPT !.n = @ + 1, !.dec = @ + 1]
  /\ IF unappliedChangeCounter_ > 0
     THEN /\ pc' = [pc EXCEPT ![t] = "dec_write"]
          /\ tmp' = [tmp EXCEPT ![t] = [NoTmp EXCEPT !.val = unappliedChangeCounter_]]
          /\ UNCHANGED result
     ELSE /\ result' = [op |-> "decrement", out |-> "ok", val |-> unappliedChangeCounter_,
                 aux |-> unappliedChangeCounter_]
          /\ UNCHANGED <<pc, tmp>>
  /\ UNCHANGED <<installedGames_, currentGame_, unappliedChangeCounter_,
                 initErrors_, mutex_, settings, initCall, crashed>>

\* line 259: the write of the decrement
DecWrite(t) ==
  /\ Running
  /\ pc[t] = "dec_write"
  /\ unappliedChangeCounter_' = tmp[t].val - 1
  /\ pc' = [pc EXCEPT ![t] = "idle"]
  /\ tmp' = [tmp EXCEPT ![t] = NoTmp]
  /\ result' = [op |-> "decrement", out |-> "ok", val |-> tmp[t].val - 1,
        aux |-> unappliedChangeCounter_]
  /\ UNCHANGED <<installedGames_, currentGame_, initErrors_, mutex_,
                 settings, initCall, crashed>>
  /\ UNCHANGED calls

-----------------------------------------------------------------------------
(* The specifications.                                                     *)

\* load, changeGame, getCurrentGame and the use of the reference: a step
\* of thread t, the inputs drawn from the given sets
LockedStep(t, nodes, probes, names) ==
  \/ Call(t)
  \/ LoadAcquire(t, nodes, probes)
  \/ LoadUpdate(t)
  \/ LoadRemove(t)
  \/ LoadSelect(t)
  \/ ChangeAcquire(t)
  \/ ChangeGame(t, names)
  \/ GetAcquire(t)
  \/ GetCurrentGame(t)
  \/ UseHandle(t)

\* the counter operations: a step of thread t
CounterStep(t) ==
  \/ HasUnappliedChanges(t)
  \/ IncRead(t)
  \/ IncWrite(t)
  \/ DecRead(t)
  \/ DecWrite(t)

\* start-up, the inputs drawn from the given sets
Startup(cmdLine, files, probes) ==
  /\ ~initCall.called
  /\ \E c \in cmdLine, file \in files, probe \in probes : init(c, file, probe)

\* Threads calling load, changeGame, getCurrentGame and getInstalledGames
\* concurrently.
ConcNodes == SettingsOver({"A", "B"}, {"p1"}, {"auto"}, {"auto"}, MaxConcLen)
ConcProbes == {{"A", "B"}, {"B"}}

Next ==
  \/ Startup({""}, ConcNodes, ConcProbes)
  \/ \E t \in Threads :
       LockedStep(t, ConcNodes, ConcProbes, {"A", "X"}) \/ GetInstalledGames(t)

Spec == Init /\ [][Next]_vars

\* The same threads without getInstalledGames, under a fair scheduler: a
\* thread that can take a step of a call it is in takes it, and a thread
\* that waits for the mutex gets it if the mutex is free again and again.
Acquire(t) ==
  LoadAcquire(t, ConcNodes, ConcProbes) \/ ChangeAcquire(t) \/ GetAcquire(t)

Body(t) ==
  \/ LoadUpdate(t)
  \/ LoadRemove(t)
  \/ LoadSelect(t)
  \/ ChangeGame(t, {"A", "X"})
  \/ GetCurrentGame(t)
  \/ UseHandle(t)

NextLive ==
  \/ Startup({""}, ConcNodes, ConcProbes)
  \/ \E t \in Threads : LockedStep(t, ConcNodes, ConcProbes, {"A", "X"})

SpecLive ==
  /\ Init
  /\ [][NextLive]_vars
  /\ \A t \in Threads : WF_vars(Body(t)) /\ SF_vars(Acquire(t))

\* Threads calling the counter operations concurrently.
NextCounter ==
  \/ Startup({""}, {DefaultSettings}, {{}})
  \/ \E t \in Threads : CounterStep(t)

SpecCounter == Init /\ [][NextCounter]_vars

\* One thread calling the counter operations, one call after the other.
NextCounterSeq ==
  \/ Startup({""}, {DefaultSettings}, {{}})
  \/ \E t \in SeqThreads : CounterStep(t)

SpecCounterSeq == Init /\ [][NextCounterSeq]_vars

\* One caller at a time: each call runs from its first line to its return
\* with no other call in progress.
Quiet == Running /\ mutex_ = NoThread /\ \A t \in Threads : pc[t] = "idle"

\* load (lines 64-115), the whole call; aux records what it was called
\* with: the list's folder names before it, the settings read, the probe
load(node, probe) ==
  /\ Quiet
  /\ \E upd \in {UpdateGames([games |-> installedGames_, stored |-> node.games,
                               folders |-> {}], node.games, 1, probe, Held)} :
     \E games \in {RemoveDeleted(upd.games, upd.folders)},
        st \in {[node EXCEPT !.games = upd.stored]} :
        /\ installedGames_' = games
        /\ settings' = st
        /\ \E o \in LoadTail(games, currentGame_, st) :
             /\ currentGame_' = o.cur
             /\ crashed' = (o.out = "crash")
             /\ result' = [op |-> "load", out |-> o.out, val |-> o.cur,
                           aux |-> [pre |-> Folders(installedGames_),
                                    node |-> node, probe |-> probe]]
  /\ UNCHANGED <<unappliedChangeCounter_, initErrors_, mutex_, initCall,
                 pc, tmp>>
  /\ UNCHANGED calls

\* changeGame (lines 224-233), the whole call
changeGame(newGameFolder) ==
  /\ Quiet
  /\ \E o \in ChangeTail(installedGames_, newGameFolder) :
       /\ currentGame_' = o.cur
       /\ crashed' = (o.out = "crash")
       /\ result' = [op |-> "changeGame", out |-> o.out, val |-> o.cur,
                     aux |-> newGameFolder]
  /\ UNCHANGED <<installedGames_, unappliedChangeCounter_, initErrors_,
                 mutex_, settings, initCall, pc, tmp>>
  /\ UNCHANGED calls

\* getCurrentGame (lines 235-239), the whole call: the reference returned
getCurrentGame ==
  /\ Quiet
  /\ result' = [op |-> "getCurrentGame", out |-> "handle",
                val |-> currentGame_, aux |-> <<>>]
  /\ UNCHANGED <<installedGames_, currentGame_, unappliedChangeCounter_,
                 initErrors_, mutex_, settings, initCall, pc, tmp, crashed>>
  /\ UNCHANGED calls

\* Calls of load, changeGame, getCurrentGame and getInstalledGames one
\* after the other, in any order.  The settings file lists some of the
\* games A, a, B in that order ("A" and "a" differ only in case).
SeqNames == {"A", "a", "B"}
SeqNodes ==
  SettingsWithin(<<"A", "a", "B">>, {"p1"}, {"auto", "B"}, {"auto"},
                 MaxCfgLen)
SeqProbes == {SeqNames, {"B"}}

NextSeq ==
  \/ Startup({"", "a"}, SeqNodes, SeqProbes)
  \/ Quiet /\ \E node \in SeqNodes, probe \in SeqProbes : load(node, probe)
  \/ \E f \in SeqNames \cup {"X"} : changeGame(f)
  \/ getCurrentGame
  \/ \E t \in SeqThreads : GetInstalledGames(t)

SpecSeq == Init /\ [][NextSeq]_vars

\* Start-up alone, over the names and preferences selectGame tells apart.
StartNames == {"A", "a", "B", "C"}
StartPrefs == {"auto", "a", "B", "X", "Z"}
StartNodes == SettingsOver(StartNames, {"p1"}, StartPrefs, StartPrefs, MaxStartLen)

NextStart == Startup({"", "a", "C", "X"}, StartNodes, SUBSET StartNames)

SpecStart == Init /\ [][NextStart]_vars

-----------------------------------------------------------------------------
(* The claims.                                                             *)

\* C1: after any sequence of init, load and changeGame calls the current
\* selection is end() or the position of a game that is in the list; it is
\* never the position of a game that was erased.
C1_SelectionNeverDangling ==
  ~crashed => ~Dangling(installedGames_, currentGame_)

\* C2: when a load erases the game the selection pointed at, the selection
\* load returns with is the one selectGame("") computes over the list as
\* it is after the erasure (list A, B with A current and only B configured:
\* B).
C2_ReselectedAfterRemoval ==
  [][(/\ result'.op = "load"
      /\ ~crashed'
      /\ currentGame_ \in Ids(installedGames_)
      /\ currentGame_ \notin Ids(installedGames_'))
     => /\ currentGame_' = SelectGame(installedGames_', "", settings').cur
        /\ ~Dangling(installedGames_', currentGame_')]_vars

\* C3: a caller that obtained a reference to a game of the list from
\* getCurrentGame never holds it for use when a load has erased that game.
C3_HandleOutlivesNoEntry ==
  \A t \in Threads :
    (pc[t] = "use" /\ tmp[t].live) => tmp[t].val \in Ids(installedGames_)

\* C4: a list of folder names getInstalledGames returns while a load is in
\* progress is the list's folder names before that load or after it.
C4_SnapshotBeforeOrAfter ==
  (result.op = "getInstalledGames" /\ result.aux /= <<>>)
    => result.val \in {result.aux[1], result.aux[2]}

\* a thread is inside the body of load, changeGame or getCurrentGame
InBody(t) ==
  pc[t] \in {"load_update", "load_remove", "load_select", "change_body",
             "get_body"}

\* C5: no two threads are inside the bodies of load, changeGame and
\* getCurrentGame at the same time, and the thread inside holds the mutex.
C5_MutualExclusion ==
  \A t \in Threads :
    InBody(t) => /\ mutex_ = t
                 /\ \A u \in Threads \ {t} : ~InBody(u)

\* C5, its case: a thread is in the middle of load while another has called
\* changeGame or getCurrentGame and waits for the mutex
C5_Contended ==
  \E t \in Threads, u \in Threads :
    /\ pc[t] \in {"load_remove", "load_select"}
    /\ pc[u] \in {"change_wait", "get_wait"}
    /\ ~crashed

\* C6: with no decrement called, once the increments called so far have all
\* returned the counter equals their number (it starts from 0): no
\* increment is lost.
C6_NoLostIncrement ==
  (calls.dec = 0 /\ \A t \in Threads : pc[t] /= "inc_write")
    => unappliedChangeCounter_ = calls.inc

\* C7: a changeGame whose folder name matches no game of the list, ignoring
\* case, ends with the error GameNotFound.
C7_UnknownGameIsAnError ==
  (result.op = "changeGame" /\ result.val = END) => result.out = "GameNotFound"

\* C8: a getCurrentGame called while the selection is end() ends with the
\* error NoGameSelected and returns no reference.
C8_NoSelectionIsAnError ==
  (result.op = "getCurrentGame" /\ result.val = END)
    => result.out = "NoGameSelected"

\* C9: a load that returns or throws throws the game detection error
\* exactly when the list is empty after its removal pass.
C9_LoadFailsIffEmpty ==
  [][(result'.op = "load" /\ ~crashed')
     => (result'.out = "GameDetectionError" <=> installedGames_' = <<>>)]_vars

\* C10 as claimed: the selection init makes is the first of preferredGame,
\* game and lastGame that names a game of the list, the first game when
\* none does (list A, B, C with "X", "Z", "B": B).
C10_LevelByLevel ==
  initCall.called
    => currentGame_ = LevelByLevel(installedGames_, initCall.cmdLineGame, settings)

\* C10 as amended: one name is looked for, preferredGame if it is not
\* empty, else game if it is not "auto", else lastGame if it is not "auto";
\* the first game with exactly that folder name is selected, and the first
\* game of the list when there is none or no name is looked for (list A, B,
\* C with "X", "Z", "B": A).
C10_OneNameThenFirst ==
  initCall.called =>
    LET c == initCall.cmdLineGame
        name == IF c /= "" THEN c
                ELSE IF settings.game /= "auto" THEN settings.game
                ELSE IF settings.lastGame /= "auto" THEN settings.lastGame
                ELSE ""
        hits == {i \in 1..Len(installedGames_) : installedGames_[i].folder = name}
    IN IF hits /= {}
       THEN \E i \in hits : /\ currentGame_ = installedGames_[i].id
                            /\ \A j \in hits : i <= j
       ELSE IF installedGames_ /= <<>>
       THEN currentGame_ = installedGames_[1].id
       ELSE currentGame_ = END

\* C10, its case: the list is A, B, C, the command line names no game of
\* it, game names none, lastGame names B, and A is selected
C10_FallsToFirst ==
  /\ initCall.called
  /\ initCall.cmdLineGame = "X"
  /\ settings.game = "Z"
  /\ settings.lastGame = "B"
  /\ Folders(installedGames_) = <<"A", "B", "C">>
  /\ currentGame_ = installedGames_[1].id

\* C11: when init is called with a command-line game that is not empty and
\* equals, ignoring case, the folder name of a game of the list, the game
\* selected is one whose folder name equals it ignoring case, whatever game
\* and lastGame are ("a" with the list B, A: A).
C11_PreferredIgnoringCase ==
  (/\ initCall.called
   /\ initCall.cmdLineGame /= ""
   /\ \E i \in 1..Len(installedGames_) :
        IEquals(initCall.cmdLineGame, installedGames_[i].folder))
  => \E i \in 1..Len(installedGames_) :
       /\ currentGame_ = installedGames_[i].id
       /\ IEquals(initCall.cmdLineGame, installedGames_[i].folder)

\* C12: a changeGame whose folder name equals, ignoring case, the folder
\* name of a game of the list returns normally with such a game selected,
\* and a getCurrentGame called next returns a reference to that game
\* (changeGame("a") with the game A in the list: A).
C12_ChangeGameIgnoringCase ==
  /\ [][(/\ result'.op = "changeGame"
         /\ \E i \in 1..Len(installedGames_) :
              IEquals(result'.aux, installedGames_[i].folder))
        => /\ ~crashed'
           /\ result'.out = "ok"
           /\ \E i \in 1..Len(installedGames_') :
                /\ currentGame_' = installedGames_'[i].id
                /\ IEquals(result'.aux, installedGames_'[i].folder)]_vars
  /\ [][(/\ result.op = "changeGame"
         /\ result.val /= END
         /\ result'.op = "getCurrentGame")
        => /\ result'.out = "handle"
           /\ result'.val = result.val
           /\ result'.val \in Ids(installedGames_')]_vars

\* C12, its case: changeGame("a") has returned and the game A is current
C12_LowerCaseSelectsUpper ==
  /\ result.op = "changeGame"
  /\ result.aux = "a"
  /\ result.out = "ok"
  /\ ~crashed
  /\ \E i \in 1..Len(installedGames_) :
       /\ currentGame_ = installedGames_[i].id
       /\ installedGames_[i].folder = "A"

\* C13: when a load has returned, every game of the list has a folder name
\* that is in the configured list the load read, and the folder names
\* getInstalledGames returns afterwards are all in that configured list: a
\* game whose folder name is no longer configured is gone.
C13_NoStaleEntry ==
  LET configured == {settings.games[i].folder : i \in 1..Len(settings.games)}
  IN /\ (result.op = "load" /\ ~crashed)
          => \A i \in 1..Len(installedGames_) :
               installedGames_[i].folder \in configured
     /\ result.op = "getInstalledGames"
          => \A i \in 1..Len(result.val) : result.val[i] \in configured

\* C13, its case: a load has returned that found in the list a game whose
\* folder name it did not read from the settings, and kept another game
C13_StaleEntryErased ==
  /\ result.op = "load"
  /\ ~crashed
  /\ installedGames_ /= <<>>
  /\ \E i \in 1..Len(result.aux.pre) :
       /\ \A j \in 1..Len(result.aux.node.games) :
            result.aux.node.games[j].folder /= result.aux.pre[i]
       /\ \A j \in 1..Len(installedGames_) :
            installedGames_[j].folder /= result.aux.pre[i]

\* C14: a load that returns keeps every game of the list whose folder name
\* equals, ignoring case, the folder name of a configured game: the same
\* list node is in the list afterwards with its fields taken from the
\* first such configured game, and the games kept keep their order (list
\* A, configured a: A stays).
C14_MatchedEntryKept ==
  [][(result'.op = "load" /\ ~crashed')
     => LET cfg == result'.aux.node.games
            Matched(g) == \E j \in 1..Len(cfg) : IEquals(g.folder, cfg[j].folder)
        IN /\ \A i \in 1..Len(installedGames_) :
                Matched(installedGames_[i])
                  => \E k \in 1..Len(installedGames_') :
                       /\ installedGames_'[k].id = installedGames_[i].id
                       /\ installedGames_'[k].folder = installedGames_[i].folder
                       /\ \E j \in 1..Len(cfg) :
                            /\ IEquals(installedGames_[i].folder, cfg[j].folder)
                            /\ installedGames_'[k].path = cfg[j].path
           /\ \A i1, i2 \in 1..Len(installedGames_) :
                (i1 < i2 /\ Matched(installedGames_[i1])
                         /\ Matched(installedGames_[i2]))
                  => \E k1, k2 \in 1..Len(installedGames_') :
                       /\ k1 < k2
                       /\ installedGames_'[k1].id = installedGames_[i1].id
                       /\ installedGames_'[k2].id = installedGames_[i2].id]_vars

\* C15: after any sequence of init and load calls no two games of the list
\* have folder names that are equal ignoring case.
C15_NoTwoAlikeFolders ==
  ~crashed =>
    \A i, j \in 1..Len(installedGames_) :
      IEquals(installedGames_[i].folder, installedGames_[j].folder) => i = j

\* C16: with the counter operations called one after the other, the
\* counter is never negative, a decrement called at zero returns with the
\* counter at zero, every other decrement lowers it by exactly one, and
\* hasUnappliedChanges returns true exactly when the counter is above zero.
C16_SaturatesAtZero ==
  /\ [](unappliedChangeCounter_ >= 0)
  /\ [](result.op = "hasUnappliedChanges"
          => (result.val <=> unappliedChangeCounter_ > 0))
  /\ [][\A t \in SeqThreads :
          /\ (pc[t] = "idle" /\ calls'.dec = calls.dec + 1)
               => IF unappliedChangeCounter_ = 0
                  THEN /\ pc'[t] = "idle"
                       /\ unappliedChangeCounter_' = 0
                       /\ ~crashed'
                  ELSE pc'[t] = "dec_write"
          /\ (pc[t] = "dec_write" /\ pc'[t] = "idle")
               => /\ unappliedChangeCounter_' = unappliedChangeCounter_ - 1
                  /\ ~crashed']_vars

\* C16, its case: three increments and two decrements have returned, the
\* last call a decrement, and the counter is 1
C16_ThreeUpTwoDown ==
  /\ calls.inc = 3
  /\ calls.dec = 2
  /\ result.op = "decrement"
  /\ \A t \in Threads : pc[t] = "idle"
  /\ unappliedChangeCounter_ = 1

\* C17: a load called right after a load that returned, with the same
\* settings and the same probe answers, leaves the list (games, order,
\* fields), the current selection and the counter as the first load left
\* them.
C17_LoadIdempotent ==
  [][(/\ result.op = "load"
      /\ ~crashed
      /\ result'.op = "load"
      /\ result'.aux.node = result.aux.node
      /\ result'.aux.probe = result.aux.probe)
     => /\ ~crashed'
        /\ installedGames_' = installedGames_
        /\ currentGame_' = currentGame_
        /\ unappliedChangeCounter_' = unappliedChangeCounter_]_vars

C19_FailedChangeKeepsSelection ==
  [][(/\ result'.op = "changeGame"
      /\ \A i \in 1..Len(installedGames_) :
           ~IEquals(result'.aux, installedGames_[i].folder))
     => currentGame_' = currentGame_]_vars

\* C20: under a fair scheduler a thread that has called load, changeGame
\* or getCurrentGame and waits for the mutex eventually gets it and
\* returns from the call, with a result or an error.
C20_EveryCallReturns ==
  \A t \in Threads :
    (pc[t] \in {"load_wait", "change_wait", "get_wait"})
      ~> (pc[t] \in {"idle", "use"})

====
